---------------------------- MODULE Spec2Model ----------------------------
(***************************************************************************)
(* Model of the bread price comparison backend: the text normalisers, the  *)
(* similarity scorer, the cross-platform matcher, the deal ranker and the  *)
(* statistics (models.py, utils.py, scraping/zepto.py, app.py).            *)
(*                                                                         *)
(* Text is a sequence of one-character strings.  Prices are whole rupees;  *)
(* a quotient the code computes in floating point is kept as the exact     *)
(* fraction [num, den].  The functions of the code are operators; each     *)
(* action of Spec is one call of a function on inputs drawn from bounded   *)
(* sets, recording the function (op), its arguments (args) and what the    *)
(* call gave back (ret).  SpecApp is the server: the POST /scrape and GET  *)
(* /compare handlers of app.py, step by step, on the threads of their      *)
(* requests.                                                               *)
(***************************************************************************)
EXTENDS Integers, Sequences, FiniteSets, TLC

VARIABLES op, args, ret

\* the server: the list the module global scraped_data names, which list
\* object that is (binding), the requests being served, the request whose
\* thread ran last and how often a thread was preempted
VARIABLES scraped_data, binding, scrape_req, compare_req, running, preemptions

callVars == <<op, args, ret>>

appVars == <<scraped_data, binding, scrape_req, compare_req, running, preemptions>>

vars == <<op, args, ret, scraped_data, binding, scrape_req, compare_req,
          running, preemptions>>

(***************************************************************************)
(* Characters.  The classes are the ones Python's str.lower, \w, \s and \d *)
(* give on the characters the model draws from.                            *)
(***************************************************************************)
LowerLetters == {"a", "b", "c", "d", "e", "g", "i", "k", "l", "m", "p", "r", "s"}

UpperLetters == {"A", "B", "G", "K"}

Digits == {"0", "1", "2", "5"}

IsSpace(c) == c \in {" ", "\t"}

IsDigit(c) == c \in Digits

IsAlnum(c) == c \in LowerLetters \cup UpperLetters \cup Digits

\* \w : alphanumerics and the underscore
IsWord(c) == IsAlnum(c) \/ c = "_"

LowerChar(c) ==
    CASE c = "A" -> "a"
      [] c = "B" -> "b"
      [] c = "G" -> "g"
      [] c = "K" -> "k"
      [] OTHER -> c

\* str.lower()
Lower(s) == [i \in 1..Len(s) |-> LowerChar(s[i])]

\* re.sub(r'[^\w\s]', '', s)
StripNonWord(s) ==
    LET keep(c) == IsWord(c) \/ IsSpace(c) IN SelectSeq(s, keep)

\* re.sub(r'\s+', ' ', s): every maximal run of whitespace becomes one space
RECURSIVE CollapseSpaces(_)
CollapseSpaces(s) ==
    IF s = <<>> THEN <<>>
    ELSE IF IsSpace(s[1])
         THEN IF Len(s) > 1 /\ IsSpace(s[2])
              THEN CollapseSpaces(Tail(s))
              ELSE <<" ">> \o CollapseSpaces(Tail(s))
         ELSE <<s[1]>> \o CollapseSpaces(Tail(s))

RECURSIVE LStrip(_)
LStrip(s) == IF s # <<>> /\ IsSpace(s[1]) THEN LStrip(Tail(s)) ELSE s

RECURSIVE RStrip(_)
RStrip(s) ==
    IF s # <<>> /\ IsSpace(s[Len(s)]) THEN RStrip(SubSeq(s, 1, Len(s) - 1)) ELSE s

\* str.strip()
Strip(s) == RStrip(LStrip(s))

normalize_name(name) == Strip(CollapseSpaces(StripNonWord(Lower(name))))

(***************************************************************************)
(* fuzz.token_sort_ratio, as calculate_similarity calls it (fuzzywuzzy     *)
(* 0.18 on difflib.SequenceMatcher): both strings are processed, split at  *)
(* whitespace, their tokens sorted and joined by one space; equal strings  *)
(* score 100, an empty one 0, and otherwise round(100 * 2M / T) with M the *)
(* matched characters of the longest-matching-block recursion and T the    *)
(* two lengths together.                                                   *)
(***************************************************************************)
\* the characters of the model in code point order
CharOrder ==
    << "\t", " ", "-", ".", "0", "1", "2", "5", "A", "B", "G", "K", "_",
       "a", "b", "c", "d", "e", "g", "i", "k", "l", "m", "p", "r", "s" >>

Ord(c) == CHOOSE i \in 1..Len(CharOrder) : CharOrder[i] = c

\* s < t for Python strings
RECURSIVE StrLess(_, _)
StrLess(s, t) ==
    IF t = <<>> THEN FALSE
    ELSE IF s = <<>> THEN TRUE
    ELSE IF s[1] # t[1] THEN Ord(s[1]) < Ord(t[1])
    ELSE StrLess(Tail(s), Tail(t))

\* utils.full_process: what is not \w becomes a space, then lower(), strip()
FullProcess(s) ==
    Strip(Lower([i \in 1..Len(s) |-> IF IsWord(s[i]) THEN s[i] ELSE " "]))

\* str.split(): the maximal runs of non-whitespace, in order
RECURSIVE SplitFrom(_, _)
SplitFrom(s, cur) ==
    IF s = <<>> THEN (IF cur = <<>> THEN <<>> ELSE <<cur>>)
    ELSE IF IsSpace(s[1])
         THEN (IF cur = <<>> THEN <<>> ELSE <<cur>>) \o SplitFrom(Tail(s), <<>>)
         ELSE SplitFrom(Tail(s), Append(cur, s[1]))

Split(s) == SplitFrom(s, <<>>)

\* sorted(tokens)
RECURSIVE InsertToken(_, _)
InsertToken(sorted, tok) ==
    IF sorted = <<>> THEN <<tok>>
    ELSE IF StrLess(tok, sorted[1]) THEN <<tok>> \o sorted
    ELSE <<sorted[1]>> \o InsertToken(Tail(sorted), tok)

RECURSIVE SortTokens(_)
SortTokens(toks) ==
    IF toks = <<>> THEN <<>>
    ELSE InsertToken(SortTokens(SubSeq(toks, 1, Len(toks) - 1)), toks[Len(toks)])

\* " ".join(tokens)
RECURSIVE Join(_)
Join(toks) ==
    IF toks = <<>> THEN <<>>
    ELSE IF Len(toks) = 1 THEN toks[1]
    ELSE toks[1] \o <<" ">> \o Join(Tail(toks))

\* fuzz._process_and_sort
ProcessAndSort(s) == Strip(Join(SortTokens(Split(FullProcess(s)))))

\* the characters a[i..] and b[j..] share before a[ahi] and b[bhi]
RECURSIVE CommonLen(_, _, _, _, _, _)
CommonLen(a, i, ahi, b, j, bhi) ==
    IF i < ahi /\ j < bhi /\ a[i] = b[j]
    THEN 1 + CommonLen(a, i + 1, ahi, b, j + 1, bhi)
    ELSE 0

\* SequenceMatcher.find_longest_match on a[alo..ahi-1], b[blo..bhi-1]: the
\* longest block, the one earliest in a, and of those the one earliest in b
LongestMatch(a, alo, ahi, b, blo, bhi) ==
    LET starts == (alo..(ahi - 1)) \X (blo..(bhi - 1))
        len(x) == CommonLen(a, x[1], ahi, b, x[2], bhi)
        best == CHOOSE x \in starts :
                  \A y \in starts :
                     \/ len(x) > len(y)
                     \/ len(x) = len(y) /\ x[1] < y[1]
                     \/ len(x) = len(y) /\ x[1] = y[1] /\ x[2] <= y[2]
    IN  [i |-> best[1], j |-> best[2], k |-> len(best)]

\* SequenceMatcher.get_matching_blocks, summed: the matched characters
RECURSIVE MatchedChars(_, _, _, _, _, _)
MatchedChars(a, alo, ahi, b, blo, bhi) ==
    IF alo >= ahi \/ blo >= bhi THEN 0
    ELSE LET m == LongestMatch(a, alo, ahi, b, blo, bhi)
         IN  IF m.k = 0 THEN 0
             ELSE m.k + MatchedChars(a, alo, m.i, b, blo, m.j)
                      + MatchedChars(a, m.i + m.k, ahi, b, m.j + m.k, bhi)

\* utils.intr(n / d): int(round(n / d)), halves going to the even neighbour
RoundDiv(n, d) ==
    LET q == n \div d
        r == n % d
    IN  IF 2 * r > d THEN q + 1
        ELSE IF 2 * r < d THEN q
        ELSE IF q % 2 = 0 THEN q ELSE q + 1

\* fuzz.ratio
ratio(s1, s2) ==
    IF s1 = s2 THEN 100
    ELSE IF Len(s1) = 0 \/ Len(s2) = 0 THEN 0
    ELSE RoundDiv(200 * MatchedChars(s1, 1, Len(s1) + 1, s2, 1, Len(s2) + 1),
                  Len(s1) + Len(s2))

token_sort_ratio(s1, s2) == ratio(ProcessAndSort(s1), ProcessAndSort(s2))

(***************************************************************************)
(* ProductMatcher.calculate_similarity                                     *)
(***************************************************************************)
\* the truth value Python gives a string
Truthy(s) == Len(s) > 0

Min(a, b) == IF a <= b THEN a ELSE b

Max(a, b) == IF a >= b THEN a ELSE b

WeightBonus == 20

ScoreCap == 100

\* calculate_similarity without the cap of 100
calculate_similarity_uncapped(name1, name2, weight1, weight2) ==
    LET name_sim == token_sort_ratio(normalize_name(name1), normalize_name(name2))
        weight_bonus ==
            IF Truthy(weight1) /\ Truthy(weight2) /\ weight1 = weight2
            THEN WeightBonus ELSE 0
    IN  name_sim + weight_bonus

calculate_similarity(name1, name2, weight1, weight2) ==
    LET name_sim == token_sort_ratio(normalize_name(name1), normalize_name(name2))
        weight_bonus ==
            IF Truthy(weight1) /\ Truthy(weight2) /\ weight1 = weight2
            THEN WeightBonus ELSE 0
    IN  Min(ScoreCap, name_sim + weight_bonus)

(***************************************************************************)
(* The records and the table made of them.  A record is the dict a scraper *)
(* makes for one product, with the keys the matcher and the statistics     *)
(* read (weight, price and image are carried along unread).  A platform    *)
(* is its rank among the platform names in string order.                   *)
(* pd.DataFrame(list of dicts) has the dicts' keys as its columns: the     *)
(* table of an empty list has no columns, and df[key] on a table without   *)
(* the column raises KeyError.                                             *)
(***************************************************************************)
RecordKeys == {"name", "brand", "weight_clean", "price_numeric", "platform"}

DataFrame(records) ==
    [columns |-> IF records = <<>> THEN {} ELSE RecordKeys, rows |-> records]

\* len(df)
NumRows(df) == Len(df.rows)

\* Series.unique(): the values in order of first appearance
RECURSIVE Unique(_)
Unique(s) ==
    IF s = <<>> THEN <<>>
    ELSE LET before == Unique(SubSeq(s, 1, Len(s) - 1))
             x == s[Len(s)]
         IN  IF \E i \in 1..Len(before) : before[i] = x THEN before ELSE Append(before, x)

\* df['platform']
PlatformColumn(df) == [i \in 1..NumRows(df) |-> df.rows[i].platform]

\* df[df['platform'] == platform]: the index labels of the rows kept, in order
RECURSIVE RowsOnFrom(_, _, _)
RowsOnFrom(df, platform, i) ==
    IF i > NumRows(df) THEN <<>>
    ELSE (IF df.rows[i].platform = platform THEN <<i>> ELSE <<>>)
         \o RowsOnFrom(df, platform, i + 1)

RowsOn(df, platform) == RowsOnFrom(df, platform, 1)

(***************************************************************************)
(* ProductMatcher.match_products                                           *)
(***************************************************************************)
DefaultThreshold == 75

Abs(x) == IF x < 0 THEN 0 - x ELSE x

\* the ProductMatch with the cheaper side decided by <=
ProductMatch_tie_to_first(row1, row2, platform1, platform2, similarity) ==
    LET price_diff == Abs(row1.price_numeric - row2.price_numeric)
        max_price == Max(row1.price_numeric, row2.price_numeric)
        price_diff_pct ==
            IF max_price > 0 THEN [num |-> price_diff * 100, den |-> max_price]
            ELSE [num |-> 0, den |-> 1]
        cheaper == IF row1.price_numeric <= row2.price_numeric THEN platform1 ELSE platform2
    IN  [product_name |-> row1.name, brand |-> row1.brand, weight |-> row1.weight_clean,
         platform1 |-> platform1, price1 |-> row1.price_numeric,
         platform2 |-> platform2, price2 |-> row2.price_numeric,
         price_diff |-> price_diff, price_diff_pct |-> price_diff_pct,
         similarity |-> similarity, cheaper_platform |-> cheaper, savings |-> price_diff]

\* the ProductMatch with the percentage taken of the first price
ProductMatch_pct_of_first(row1, row2, platform1, platform2, similarity) ==
    LET price_diff == Abs(row1.price_numeric - row2.price_numeric)
        price_diff_pct ==
            IF row1.price_numeric > 0
            THEN [num |-> price_diff * 100, den |-> row1.price_numeric]
            ELSE [num |-> 0, den |-> 1]
        cheaper == IF row1.price_numeric < row2.price_numeric THEN platform1 ELSE platform2
    IN  [product_name |-> row1.name, brand |-> row1.brand, weight |-> row1.weight_clean,
         platform1 |-> platform1, price1 |-> row1.price_numeric,
         platform2 |-> platform2, price2 |-> row2.price_numeric,
         price_diff |-> price_diff, price_diff_pct |-> price_diff_pct,
         similarity |-> similarity, cheaper_platform |-> cheaper, savings |-> price_diff]

\* lines 117-137: the match record of two rows that scored `similarity`
ProductMatch(row1, row2, platform1, platform2, similarity) ==
    LET price_diff == Abs(row1.price_numeric - row2.price_numeric)
        max_price == Max(row1.price_numeric, row2.price_numeric)
        price_diff_pct ==
            IF max_price > 0 THEN [num |-> price_diff * 100, den |-> max_price]
            ELSE [num |-> 0, den |-> 1]
        cheaper == IF row1.price_numeric < row2.price_numeric THEN platform1 ELSE platform2
    IN  [product_name |-> row1.name, brand |-> row1.brand, weight |-> row1.weight_clean,
         platform1 |-> platform1, price1 |-> row1.price_numeric,
         platform2 |-> platform2, price2 |-> row2.price_numeric,
         price_diff |-> price_diff, price_diff_pct |-> price_diff_pct,
         similarity |-> similarity, cheaper_platform |-> cheaper, savings |-> price_diff]

\* the body of the innermost loop with > for >=
MatchPair_above_only(df, threshold, platform1, platform2, idx1, idx2) ==
    LET row1 == df.rows[idx1]
        row2 == df.rows[idx2]
        similarity == calculate_similarity(row1.name, row2.name,
                                           row1.weight_clean, row2.weight_clean)
    IN  IF similarity > threshold
        THEN << [match |-> ProductMatch(row1, row2, platform1, platform2, similarity),
                 at |-> <<idx1, idx2>>] >>
        ELSE <<>>

\* lines 111-138, the body of the innermost loop: what it appends to matches.
\* `at` keeps the index labels idx1, idx2 of the two rows beside the match.
MatchPair(df, threshold, platform1, platform2, idx1, idx2) ==
    LET row1 == df.rows[idx1]
        row2 == df.rows[idx2]
        similarity == calculate_similarity(row1.name, row2.name,
                                           row1.weight_clean, row2.weight_clean)
    IN  IF similarity >= threshold
        THEN << [match |-> ProductMatch(row1, row2, platform1, platform2, similarity),
                 at |-> <<idx1, idx2>>] >>
        ELSE <<>>

\* line 110: for idx2, row2 in df2.iterrows()
RECURSIVE ForRows2(_, _, _, _, _, _)
ForRows2(df, threshold, platform1, platform2, idx1, rows2) ==
    IF rows2 = <<>> THEN <<>>
    ELSE MatchPair(df, threshold, platform1, platform2, idx1, rows2[1])
         \o ForRows2(df, threshold, platform1, platform2, idx1, Tail(rows2))

\* line 109: for idx1, row1 in df1.iterrows()
RECURSIVE ForRows1(_, _, _, _, _, _)
ForRows1(df, threshold, platform1, platform2, rows1, rows2) ==
    IF rows1 = <<>> THEN <<>>
    ELSE ForRows2(df, threshold, platform1, platform2, rows1[1], rows2)
         \o ForRows1(df, threshold, platform1, platform2, Tail(rows1), rows2)

\* the loop over platform2 skipping only platform1 itself
RECURSIVE ForPlatform2_skip_same(_, _, _, _)
ForPlatform2_skip_same(df, threshold, platform1, rest) ==
    IF rest = <<>> THEN <<>>
    ELSE (IF platform1 = rest[1] THEN <<>>
          ELSE ForRows1(df, threshold, platform1, rest[1],
                        RowsOn(df, platform1), RowsOn(df, rest[1])))
         \o ForPlatform2_skip_same(df, threshold, platform1, Tail(rest))

\* lines 103-107: for platform2 in platforms, skipping platform1 >= platform2
RECURSIVE ForPlatform2(_, _, _, _)
ForPlatform2(df, threshold, platform1, rest) ==
    IF rest = <<>> THEN <<>>
    ELSE (IF platform1 >= rest[1] THEN <<>>
          ELSE ForRows1(df, threshold, platform1, rest[1],
                        RowsOn(df, platform1), RowsOn(df, rest[1])))
         \o ForPlatform2(df, threshold, platform1, Tail(rest))

\* lines 100-101: for platform1 in platforms
RECURSIVE ForPlatform1(_, _, _, _)
ForPlatform1(df, threshold, platforms, rest) ==
    IF rest = <<>> THEN <<>>
    ELSE ForPlatform2(df, threshold, rest[1], platforms)
         \o ForPlatform1(df, threshold, platforms, Tail(rest))

\* what a call gives back: the value it returns or the exception it raises.
\* `at` is the pair of rows behind each returned match.
Returns(found) ==
    [exc |-> "none",
     val |-> [k \in 1..Len(found) |-> found[k].match],
     at |-> [k \in 1..Len(found) |-> found[k].at]]

Raises(exception) == [exc |-> exception, val |-> <<>>, at |-> <<>>]

match_products(df, threshold) ==
    IF "platform" \notin df.columns THEN Raises("KeyError")
    ELSE LET platforms == Unique(PlatformColumn(df))
         IN  IF Len(platforms) < 2 THEN Returns(<<>>)
             ELSE Returns(ForPlatform1(df, threshold, platforms, platforms))

(***************************************************************************)
(* ProductMatcher.get_best_deals                                           *)
(***************************************************************************)
\* sorted(..., key=savings, reverse=True) is stable: of two matches with the
\* same savings the one earlier in the list stays earlier
RECURSIVE InsertBySavings(_, _)
InsertBySavings(sorted, m) ==
    IF sorted = <<>> THEN <<m>>
    ELSE IF sorted[1].savings >= m.savings
         THEN <<sorted[1]>> \o InsertBySavings(Tail(sorted), m)
         ELSE <<m>> \o sorted

RECURSIVE SortedBySavings(_)
SortedBySavings(matches) ==
    IF matches = <<>> THEN <<>>
    ELSE InsertBySavings(SortedBySavings(SubSeq(matches, 1, Len(matches) - 1)),
                         matches[Len(matches)])

\* s[:n]
SliceTo(s, n) ==
    IF n >= 0 THEN SubSeq(s, 1, Min(n, Len(s)))
    ELSE SubSeq(s, 1, Max(0, Len(s) + n))

\* s[::-1]
Reverse(s) == [i \in 1..Len(s) |-> s[Len(s) + 1 - i]]

\* get_best_deals sorting upwards and turning the list round
get_best_deals_reversed(matches, top_n) ==
    [val |-> SliceTo(SortedBySavings(Reverse(matches)), top_n), matches |-> matches]

\* val: the list returned; matches: the list passed in, as the call leaves it
get_best_deals(matches, top_n) ==
    LET sorted_matches == SortedBySavings(matches)
    IN  [val |-> SliceTo(sorted_matches, top_n), matches |-> matches]

(***************************************************************************)
(* The statistics.  A float is the exact fraction num/den, or NaN; the     *)
(* standard deviation is kept as its square, the sample variance.          *)
(***************************************************************************)
Number(n, d) == [nan |-> FALSE, num |-> n, den |-> d]

NaN == [nan |-> TRUE, num |-> 0, den |-> 1]

\* df['price_numeric'] of the rows kept
Prices(rows) == [i \in 1..Len(rows) |-> rows[i].price_numeric]

RECURSIVE Sum(_)
Sum(xs) == IF xs = <<>> THEN 0 ELSE xs[1] + Sum(Tail(xs))

RECURSIVE InsertNumber(_, _)
InsertNumber(sorted, x) ==
    IF sorted = <<>> THEN <<x>>
    ELSE IF sorted[1] <= x THEN <<sorted[1]>> \o InsertNumber(Tail(sorted), x)
    ELSE <<x>> \o sorted

RECURSIVE SortNumbers(_)
SortNumbers(xs) ==
    IF xs = <<>> THEN <<>> ELSE InsertNumber(SortNumbers(Tail(xs)), xs[1])

\* Series.mean(), .min(), .max(), .median(): NaN of an empty series
Mean(xs) == IF xs = <<>> THEN NaN ELSE Number(Sum(xs), Len(xs))

MinOf(xs) == IF xs = <<>> THEN NaN ELSE Number(SortNumbers(xs)[1], 1)

MaxOf(xs) == IF xs = <<>> THEN NaN ELSE Number(SortNumbers(xs)[Len(xs)], 1)

Median(xs) ==
    LET sorted == SortNumbers(xs)
        n == Len(xs)
    IN  IF n = 0 THEN NaN
        ELSE IF n % 2 = 1 THEN Number(sorted[(n + 1) \div 2], 1)
        ELSE Number(sorted[n \div 2] + sorted[n \div 2 + 1], 2)

\* Series.std(), ddof = 1: NaN of fewer than 2 values
Std(xs) ==
    LET n == Len(xs)
    IN  IF n < 2 THEN NaN
        ELSE Number(n * Sum([i \in 1..n |-> xs[i] * xs[i]]) - Sum(xs) * Sum(xs), n * (n - 1))

\* Series.nunique()
NUnique(xs) == Cardinality({xs[i] : i \in 1..Len(xs)})

Ok(v) == [exc |-> "none", val |-> v]

\* PriceAnalyzer.calculate_statistics
calculate_statistics(df) ==
    IF "platform" \notin df.columns THEN Raises("KeyError")
    ELSE LET prices == Prices(df.rows)
         IN  Ok([total_products |-> NumRows(df),
                 total_platforms |-> NUnique(PlatformColumn(df)),
                 total_brands |-> NUnique([i \in 1..NumRows(df) |-> df.rows[i].brand]),
                 avg_price |-> Mean(prices),
                 median_price |-> Median(prices),
                 min_price |-> MinOf(prices),
                 max_price |-> MaxOf(prices),
                 price_std |-> Std(prices)])

\* ProductMatcher.get_platform_stats: a dict keyed by the platforms present
get_platform_stats(df) ==
    IF "platform" \notin df.columns THEN Raises("KeyError")
    ELSE Ok([platform \in {df.rows[i].platform : i \in 1..NumRows(df)} |->
              LET idx == RowsOn(df, platform)
                  prices == [k \in 1..Len(idx) |-> df.rows[idx[k]].price_numeric]
              IN  [total_products |-> Len(idx),
                   avg_price |-> Mean(prices),
                   min_price |-> MinOf(prices),
                   max_price |-> MaxOf(prices),
                   median_price |-> Median(prices)]])

(***************************************************************************)
(* app.py, GET /compare, on the records the last scrape left               *)
(***************************************************************************)
DefaultTopN == 10

compare(records) ==
    IF records = <<>>
    THEN [status |-> 400, error |-> "No data scraped yet. Call /scrape first"]
    ELSE LET df == DataFrame(records)
             matches == match_products(df, DefaultThreshold).val
             best_deals == get_best_deals(matches, DefaultTopN).val
             stats == calculate_statistics(df)
             platform_stats == get_platform_stats(df)
         IN  [status |-> 200,
              total_products |-> Len(records),
              matches_found |-> Len(matches),
              best_deals |-> SliceTo(best_deals, 10),
              statistics |-> stats.val,
              platform_stats |-> platform_stats.val]

(***************************************************************************)
(* ZeptoScraper.clean_weight.  re.search is the leftmost match of          *)
(*     (\d+(?:\.\d+)?)\s*(g|kg|ml|l|gm|gram|piece|pcs)                     *)
(* and, at that start, the first match the backtracking engine finds:      *)
(* greedy \d+, the optional fraction tried before its absence, greedy \s*, *)
(* the alternatives of the unit group in the order written.                *)
(***************************************************************************)
UnitAlternatives ==
    << <<"g">>, <<"k", "g">>, <<"m", "l">>, <<"l">>, <<"g", "m">>,
       <<"g", "r", "a", "m">>, <<"p", "i", "e", "c", "e">>, <<"p", "c", "s">> >>

\* t[p..] starts with u
StartsWithAt(t, p, u) ==
    /\ p + Len(u) - 1 <= Len(t)
    /\ SubSeq(t, p, p + Len(u) - 1) = u

\* the number of digits / whitespace characters t has from position p on
RECURSIVE DigitRun(_, _)
DigitRun(t, p) == IF p <= Len(t) /\ IsDigit(t[p]) THEN 1 + DigitRun(t, p + 1) ELSE 0

RECURSIVE SpaceRun(_, _)
SpaceRun(t, p) == IF p <= Len(t) /\ IsSpace(t[p]) THEN 1 + SpaceRun(t, p + 1) ELSE 0

\* (g|kg|ml|l|gm|gram|piece|pcs) at p: the first alternative that matches, 0 if none
UnitAt(t, p) ==
    LET ks == {k \in 1..Len(UnitAlternatives) : StartsWithAt(t, p, UnitAlternatives[k])}
    IN  IF ks = {} THEN 0 ELSE CHOOSE k \in ks : \A j \in ks : k <= j

\* \s*(unit) at p, \s* trying s characters first, then fewer
RECURSIVE SpacesThenUnit(_, _, _)
SpacesThenUnit(t, p, s) ==
    IF s < 0 THEN 0
    ELSE IF UnitAt(t, p + s) # 0 THEN UnitAt(t, p + s)
    ELSE SpacesThenUnit(t, p, s - 1)

\* (?:\.\d+)?\s*(unit) after the a digits at i: the fraction with b digits
\* first, then with fewer, then (b = 0) without the fraction
RECURSIVE FractionThenUnit(_, _, _, _)
FractionThenUnit(t, i, a, b) ==
    IF b = 0
    THEN LET k == SpacesThenUnit(t, i + a, SpaceRun(t, i + a))
         IN  IF k # 0 THEN <<a, 0, k>> ELSE <<>>
    ELSE LET k == SpacesThenUnit(t, i + a + 1 + b, SpaceRun(t, i + a + 1 + b))
         IN  IF k # 0 THEN <<a + 1 + b, b, k>> ELSE FractionThenUnit(t, i, a, b - 1)

\* the whole pattern at i, \d+ trying a digits first, then fewer: <<length of
\* group 1, digits of the fraction, alternative of the unit>>, or <<>>
RECURSIVE MatchAt(_, _, _)
MatchAt(t, i, a) ==
    IF a < 1 THEN <<>>
    ELSE LET b == IF i + a <= Len(t) /\ t[i + a] = "." THEN DigitRun(t, i + a + 1) ELSE 0
             m == FractionThenUnit(t, i, a, b)
         IN  IF m # <<>> THEN m ELSE MatchAt(t, i, a - 1)

\* re.search: the groups (value, unit) of the leftmost match, or matched = FALSE
RECURSIVE WeightSearchFrom(_, _)
WeightSearchFrom(t, i) ==
    IF i > Len(t) THEN [matched |-> FALSE, value |-> <<>>, unit |-> <<>>]
    ELSE LET m == MatchAt(t, i, DigitRun(t, i))
         IN  IF m # <<>>
             THEN [matched |-> TRUE,
                   value |-> SubSeq(t, i, i + m[1] - 1),
                   unit |-> UnitAlternatives[m[3]]]
             ELSE WeightSearchFrom(t, i + 1)

WeightSearch(t) == WeightSearchFrom(t, 1)

\* clean_weight with a suffix for every unit the pattern knows (ml and l too)
clean_weight_every_unit(weight_text) ==
    IF weight_text = <<>> THEN <<>>
    ELSE LET t == Lower(weight_text)
             m == WeightSearch(t)
         IN  IF m.matched
             THEN IF m.unit \in {<<"g">>, <<"g", "m">>, <<"g", "r", "a", "m">>}
                  THEN m.value \o <<"g">>
                  ELSE IF m.unit \in {<<"k", "g">>}
                  THEN m.value \o <<"k", "g">>
                  ELSE IF m.unit \in {<<"p", "i", "e", "c", "e">>, <<"p", "c", "s">>}
                  THEN m.value \o <<"p", "c">>
                  ELSE m.value \o m.unit
             ELSE t

clean_weight(weight_text) ==
    IF weight_text = <<>> THEN <<>>
    ELSE LET t == Lower(weight_text)
             m == WeightSearch(t)
         IN  IF m.matched
             THEN IF m.unit \in {<<"g">>, <<"g", "m">>, <<"g", "r", "a", "m">>}
                  THEN m.value \o <<"g">>
                  ELSE IF m.unit \in {<<"k", "g">>}
                  THEN m.value \o <<"k", "g">>
                  ELSE IF m.unit \in {<<"p", "i", "e", "c", "e">>, <<"p", "c", "s">>}
                  THEN m.value \o <<"p", "c">>
                  ELSE t
             ELSE t

(***************************************************************************)
(* Inputs.                                                                 *)
(***************************************************************************)
MaxNameLen == 4

NameChars == {"a", "b", "A", "-", "_", " ", "\t"}

RECURSIVE SeqsUpTo(_, _)
SeqsUpTo(S, n) ==
    IF n = 0 THEN {<<>>}
    ELSE LET shorter == SeqsUpTo(S, n - 1)
         IN  shorter \cup {Append(s, c) : s \in {t \in shorter : Len(t) = n - 1}, c \in S}

NameInputs == SeqsUpTo(NameChars, MaxNameLen)

MaxWeightLen == 4

WeightChars == {"1", ".", " ", "g", "k", "m", "l"}

\* the weights the documentation works through, and the longer unit words
WeightExamples ==
    { <<"2", "5", "0", " ", "G">>,
      <<"1", " ", "K", "g">>,
      <<"2", " ", "p", "c", "s">>,
      <<"5", "0", "0", " ", "m", "l">>,
      <<"1", " ", "p", "i", "e", "c", "e">>,
      <<"5", "g", "r", "a", "m">>,
      <<"2", ".", "5", " ", "k", "g">>,
      <<"1", "l", " ", "2", "g">> }

WeightInputs == SeqsUpTo(WeightChars, MaxWeightLen) \cup WeightExamples

MaxSimLen == 3

SimChars == {"a", "b", " "}

\* the second name of a scored pair
SimNames == { <<>>, <<"a">>, <<"a", "b">>, <<"A", "-", "b">>, <<"b", " ", "a">>,
              <<"a", "b", "b">>, <<"b", "b", "b", "b">> }

WeightTexts == { <<>>, <<"2", "5", "0", "g">>, <<"1", "k", "g">> }

\* product names: "abc", "Abc-" (the same name once normalised) and "abd"
\* (two thirds like "abc": 67)
NameABC == <<"a", "b", "c">>

NameAbcDash == <<"A", "b", "c", "-">>

NameABD == <<"a", "b", "d">>

Weight250g == <<"2", "5", "0", "g">>

Weight1kg == <<"1", "k", "g">>

Product(name, brand, weight_clean, price_numeric, platform) ==
    [name |-> name, brand |-> brand, weight_clean |-> weight_clean,
     price_numeric |-> price_numeric, platform |-> platform]

\* the products a scrape may bring, on platforms 1 < 2 < 3
Catalog ==
    { Product(NameABC, "Britannia", Weight250g, 45, 1),
      Product(NameAbcDash, "Britannia", Weight250g, 38, 2),
      Product(NameABD, "Modern", Weight250g, 45, 2),
      Product(NameABD, "Modern", <<>>, 38, 3),
      Product(NameABC, "Britannia", <<>>, 0, 1),
      Product(NameAbcDash, "Britannia", <<>>, 0, 3),
      Product(NameABC, "Britannia", Weight250g, 45, 3),
      Product(NameABC, "Britannia", Weight1kg, 38, 2) }

MaxRecords == 3

RecordLists == SeqsUpTo(Catalog, MaxRecords)

Thresholds == {DefaultThreshold, 100, 101}

Score(a, b) == calculate_similarity(a.name, b.name, a.weight_clean, b.weight_clean)

\* matches to rank: savings 7, 0, 0, 38 and 7, no two of them the same record
DealOf(row1, row2) == ProductMatch(row1, row2, row1.platform, row2.platform, Score(row1, row2))

Deals ==
    { DealOf(Product(NameABC, "Britannia", Weight250g, 45, 1),
             Product(NameAbcDash, "Britannia", Weight250g, 38, 2)),
      DealOf(Product(NameABC, "Britannia", Weight250g, 45, 1),
             Product(NameABC, "Britannia", Weight250g, 45, 3)),
      DealOf(Product(NameABC, "Britannia", <<>>, 0, 1),
             Product(NameAbcDash, "Britannia", <<>>, 0, 3)),
      DealOf(Product(NameABC, "Britannia", <<>>, 0, 1),
             Product(NameAbcDash, "Britannia", Weight250g, 38, 2)),
      DealOf(Product(NameABC, "Britannia", Weight1kg, 38, 2),
             Product(NameABC, "Britannia", Weight250g, 45, 3)) }

MaxMatches == 3

MaxTopN == 4

(***************************************************************************)
(* app.py as a server.  app.run serves every request on a thread of its    *)
(* own, so a POST /scrape (a coroutine run to completion on its thread)    *)
(* interleaves with other requests; all of them share the module global    *)
(* scraped_data.  The /scrape requests are numbered in the order they      *)
(* arrive, and a scraped record carries the number of the request whose    *)
(* scraper returned it (cycle), which the code does not store.  A /compare *)
(* request only reads, so the /compare requests are served one at a time.  *)
(***************************************************************************)
MaxScrapes == 2

ScrapeReqs == 1..MaxScrapes

\* the keys of the dict scrapers, in the order a for loop visits them
scrapers == <<"instamart", "blinkit", "zepto">>

\* what a platform lists: one bread product, under the platform's label
\* (Blinkit < Instamart < Zepto, the ranks 1 < 2 < 3)
Listing(platform) ==
    CASE platform = "instamart" -> Product(NameABC, "Britannia", Weight250g, 45, 2)
      [] platform = "blinkit" -> Product(NameAbcDash, "Britannia", Weight250g, 38, 1)
      [] platform = "zepto" -> Product(NameABD, "Modern", Weight250g, 45, 3)

Scraped(platform, cycle) ==
    [name |-> Listing(platform).name,
     brand |-> Listing(platform).brand,
     weight_clean |-> Listing(platform).weight_clean,
     price_numeric |-> Listing(platform).price_numeric,
     platform |-> Listing(platform).platform,
     cycle |-> cycle]

\* what scraper.scrape(page) may return: the products found and, from
\* ZeptoScraper (no search box, or an error caught by its own except
\* clause), the empty list
Found(platform, cycle) ==
    IF platform = "zepto"
    THEN { <<>>, <<Scraped(platform, cycle)>> }
    ELSE { <<Scraped(platform, cycle)>> }

\* a thread before it has looked at anything
NewScrape ==
    [pc |-> "idle", i |-> 0, page |-> "none", pages |-> {}, browser |-> "none",
     closes |-> 0, outcome |-> "none", data |-> <<>>, target |-> -1,
     response |-> -1]

NewCompare == [pc |-> "idle", df |-> <<>>, during |-> {}, response |-> <<>>]

\* The threads are those of the requests.  A thread is preempted when
\* another one runs before it has answered its request.  A step that touches
\* only the request's own browser and pages commutes with the steps of the
\* other requests, so threads are preempted where their next step reads or
\* writes scraped_data, and at most MaxPreemptions times in all.
MaxPreemptions == 1

NoThread == <<>>

ScrapeThread(r) == <<"scrape", r>>

CompareThread == <<"compare">>

Answered(thread) ==
    IF thread = CompareThread
    THEN compare_req.pc \in {"idle", "done"}
    ELSE scrape_req[thread[2]].pc = "done"

AtSharedAccess(thread) ==
    IF thread = CompareThread
    THEN compare_req.pc \in {"frame", "analyse"}
    ELSE scrape_req[thread[2]].pc \in {"load", "extend", "respond"}

Preempting(thread) ==
    running # NoThread /\ running # thread /\ ~Answered(running)

Schedule(thread) ==
    /\ Preempting(thread) => preemptions < MaxPreemptions /\ AtSharedAccess(running)
    /\ running' = thread
    /\ preemptions' = IF Preempting(thread) THEN preemptions + 1 ELSE preemptions

(***************************************************************************)
(* The calls.                                                              *)
(***************************************************************************)
Init ==
    /\ op = "idle"
    /\ args = <<>>
    /\ ret = <<>>
    /\ scraped_data = <<>>
    /\ binding = 0
    /\ scrape_req = [r \in ScrapeReqs |-> NewScrape]
    /\ compare_req = NewCompare
    /\ running = NoThread
    /\ preemptions = 0

NormalizeName ==
    /\ op = "idle"
    /\ \E name \in NameInputs :
          /\ op' = "normalize_name"
          /\ args' = name
          /\ ret' = normalize_name(name)
    /\ UNCHANGED appVars

CleanWeight ==
    /\ op = "idle"
    /\ \E weight_text \in WeightInputs :
          /\ op' = "clean_weight"
          /\ args' = weight_text
          /\ ret' = clean_weight(weight_text)
    /\ UNCHANGED appVars

CalculateSimilarity ==
    /\ op = "idle"
    /\ \E name1 \in SeqsUpTo(SimChars, MaxSimLen), name2 \in SimNames,
          weight1 \in WeightTexts, weight2 \in WeightTexts :
          /\ op' = "calculate_similarity"
          /\ args' = [name1 |-> name1, name2 |-> name2,
                      weight1 |-> weight1, weight2 |-> weight2]
          /\ ret' = calculate_similarity(name1, name2, weight1, weight2)
    /\ UNCHANGED appVars

\* df = pd.DataFrame(records); ProductMatcher.match_products(df, threshold)
MatchProducts ==
    /\ op = "idle"
    /\ \E records \in RecordLists, threshold \in Thresholds :
          /\ op' = "match_products"
          /\ args' = [records |-> records, threshold |-> threshold]
          /\ ret' = match_products(DataFrame(records), threshold)
    /\ UNCHANGED appVars

GetBestDeals ==
    /\ op = "idle"
    /\ \E matches \in SeqsUpTo(Deals, MaxMatches), top_n \in 0..MaxTopN :
          /\ op' = "get_best_deals"
          /\ args' = [matches |-> matches, top_n |-> top_n]
          /\ ret' = get_best_deals(matches, top_n)
    /\ UNCHANGED appVars

\* df = pd.DataFrame(records); PriceAnalyzer.calculate_statistics(df)
CalculateStatistics ==
    /\ op = "idle"
    /\ \E records \in RecordLists :
          /\ op' = "calculate_statistics"
          /\ args' = records
          /\ ret' = calculate_statistics(DataFrame(records))
    /\ UNCHANGED appVars

\* GET /compare with scraped_data as a scrape, or no scrape, left it
Compare ==
    /\ op = "idle"
    /\ \E records \in RecordLists :
          /\ op' = "compare"
          /\ args' = records
          /\ ret' = compare(records)
    /\ UNCHANGED appVars

Next ==
    \/ NormalizeName
    \/ CleanWeight
    \/ CalculateSimilarity
    \/ MatchProducts
    \/ GetBestDeals
    \/ CalculateStatistics
    \/ Compare

Spec == Init /\ [][Next]_vars

(***************************************************************************)
(* POST /scrape, app.py lines 34-63, one action per step between two       *)
(* points where the thread may be suspended.                               *)
(***************************************************************************)
\* the requests arrive in the order of their numbers
Arrived(r) == \A earlier \in ScrapeReqs : earlier < r => scrape_req[earlier].pc # "idle"

\* global scraped_data; scraped_data = []   (a new list object)
ResetData(r) ==
    /\ scrape_req[r].pc = "idle"
    /\ Arrived(r)
    /\ Schedule(ScrapeThread(r))
    /\ scraped_data' = <<>>
    /\ binding' = r
    /\ scrape_req' = [scrape_req EXCEPT ![r].pc = "launch"]
    /\ UNCHANGED <<compare_req, callVars>>

\* browser = await p.chromium.launch(...); context = await browser.new_context(...)
LaunchBrowser(r) ==
    /\ scrape_req[r].pc = "launch"
    /\ Schedule(ScrapeThread(r))
    /\ scrape_req' = [scrape_req EXCEPT ![r].browser = "open", ![r].i = 1,
                                        ![r].pc = "new_page"]
    /\ UNCHANGED <<scraped_data, binding, compare_req, callVars>>

\* page = await context.new_page()
NewPage(r) ==
    /\ scrape_req[r].pc = "new_page"
    /\ Schedule(ScrapeThread(r))
    /\ scrape_req' = [scrape_req EXCEPT ![r].page = scrapers[scrape_req[r].i],
                                        ![r].pages = @ \cup {scrapers[scrape_req[r].i]},
                                        ![r].outcome = "none",
                                        ![r].pc = "scrape"]
    /\ UNCHANGED <<scraped_data, binding, compare_req, callVars>>

\* data = await scraper.scrape(page), the scraper returning
ScraperReturns(r) ==
    /\ scrape_req[r].pc = "scrape"
    /\ Schedule(ScrapeThread(r))
    /\ \E data \in Found(scrapers[scrape_req[r].i], r) :
          scrape_req' = [scrape_req EXCEPT ![r].data = data,
                                           ![r].outcome = "returned",
                                           ![r].pc = "load"]
    /\ UNCHANGED <<scraped_data, binding, compare_req, callVars>>

\* the try statement without its except clause: the exception leaves the
\* loop through the two finally clauses
ScraperRaises_propagates(r) ==
    /\ scrape_req[r].pc = "scrape"
    /\ Schedule(ScrapeThread(r))
    /\ scrape_req' = [scrape_req EXCEPT ![r].outcome = "raised",
                                        ![r].i = Len(scrapers),
                                        ![r].pc = "close_page"]
    /\ UNCHANGED <<scraped_data, binding, compare_req, callVars>>

\* scraper.scrape(page) raising an Exception, which the except clause catches
ScraperRaises(r) ==
    /\ scrape_req[r].pc = "scrape"
    /\ Schedule(ScrapeThread(r))
    /\ scrape_req' = [scrape_req EXCEPT ![r].outcome = "raised",
                                        ![r].pc = "close_page"]
    /\ UNCHANGED <<scraped_data, binding, compare_req, callVars>>

\* scraped_data.extend(data), first half: the global is looked up
LoadGlobal(r) ==
    /\ scrape_req[r].pc = "load"
    /\ Schedule(ScrapeThread(r))
    /\ scrape_req' = [scrape_req EXCEPT ![r].target = binding, ![r].pc = "extend"]
    /\ UNCHANGED <<scraped_data, binding, compare_req, callVars>>

\* scraped_data.extend(data), second half: the list that was looked up is
\* extended, which shows in the global only while it still names that list
Extend(r) ==
    /\ scrape_req[r].pc = "extend"
    /\ Schedule(ScrapeThread(r))
    /\ scraped_data' = IF scrape_req[r].target = binding
                       THEN scraped_data \o scrape_req[r].data
                       ELSE scraped_data
    /\ scrape_req' = [scrape_req EXCEPT ![r].target = -1, ![r].pc = "close_page"]
    /\ UNCHANGED <<binding, compare_req, callVars>>

\* finally: await page.close(); then the next platform of the loop, if any
ClosePage(r) ==
    /\ scrape_req[r].pc = "close_page"
    /\ Schedule(ScrapeThread(r))
    /\ scrape_req' = [scrape_req EXCEPT
                        ![r].pages = @ \ {scrape_req[r].page},
                        ![r].i = IF @ < Len(scrapers) THEN @ + 1 ELSE @,
                        ![r].pc = IF scrape_req[r].i < Len(scrapers)
                                  THEN "new_page" ELSE "close_browser"]
    /\ UNCHANGED <<scraped_data, binding, compare_req, callVars>>

\* finally: await browser.close()
CloseBrowser(r) ==
    /\ scrape_req[r].pc = "close_browser"
    /\ Schedule(ScrapeThread(r))
    /\ scrape_req' = [scrape_req EXCEPT ![r].browser = "closed",
                                        ![r].closes = @ + 1,
                                        ![r].pc = "respond"]
    /\ UNCHANGED <<scraped_data, binding, compare_req, callVars>>

\* return jsonify({'message': f'Scraped {len(scraped_data)} products total', ...});
\* the locals of the coroutine go with it
ScrapeResponse(r) ==
    /\ scrape_req[r].pc = "respond"
    /\ Schedule(ScrapeThread(r))
    /\ scrape_req' = [scrape_req EXCEPT ![r].response = Len(scraped_data),
                                        ![r].page = NewScrape.page,
                                        ![r].outcome = NewScrape.outcome,
                                        ![r].data = NewScrape.data,
                                        ![r].pc = "done"]
    /\ UNCHANGED <<scraped_data, binding, compare_req, callVars>>

(***************************************************************************)
(* GET /compare, app.py lines 65-86: the global is read at line 67, again  *)
(* at line 70 and again at line 81.                                        *)
(***************************************************************************)
\* lines 73-86 on the frame of line 70; an exception is answered with 500
analyse(df, total_products) ==
    LET found == match_products(df, DefaultThreshold)
    IN  IF found.exc # "none"
        THEN [status |-> 500, error |-> found.exc]
        ELSE [status |-> 200,
              total_products |-> total_products,
              matches_found |-> Len(found.val),
              best_deals |-> SliceTo(get_best_deals(found.val, DefaultTopN).val, 10),
              statistics |-> calculate_statistics(df).val,
              platform_stats |-> get_platform_stats(df).val]

\* the /scrape requests that have run scraped_data = [] and have a platform
\* left whose data they may still add
Collecting ==
    { r \in ScrapeReqs :
        \/ scrape_req[r].pc \in {"launch", "new_page", "scrape", "load", "extend"}
        \/ scrape_req[r].pc = "close_page" /\ scrape_req[r].i < Len(scrapers) }

\* if not scraped_data: return jsonify({'error': ...}), 400
CompareCheck ==
    /\ compare_req.pc \in {"idle", "done"}
    /\ Schedule(CompareThread)
    /\ compare_req' = IF scraped_data = <<>>
                      THEN [NewCompare EXCEPT !.pc = "done",
                                              !.response = compare(scraped_data)]
                      ELSE [NewCompare EXCEPT !.pc = "frame"]
    /\ UNCHANGED <<scraped_data, binding, scrape_req, callVars>>

\* df = pd.DataFrame(scraped_data)
CompareFrame ==
    /\ compare_req.pc = "frame"
    /\ Schedule(CompareThread)
    /\ compare_req' = [compare_req EXCEPT !.df = DataFrame(scraped_data),
                                          !.during = Collecting,
                                          !.pc = "analyse"]
    /\ UNCHANGED <<scraped_data, binding, scrape_req, callVars>>

\* match_products(df) ... return jsonify({'total_products': len(scraped_data), ...})
CompareResponse ==
    /\ compare_req.pc = "analyse"
    /\ Schedule(CompareThread)
    /\ compare_req' = [compare_req EXCEPT
                         !.response = analyse(compare_req.df, Len(scraped_data)),
                         !.pc = "done"]
    /\ UNCHANGED <<scraped_data, binding, scrape_req, callVars>>

AppNext ==
    \/ \E r \in ScrapeReqs : ResetData(r)
    \/ \E r \in ScrapeReqs : LaunchBrowser(r)
    \/ \E r \in ScrapeReqs : NewPage(r)
    \/ \E r \in ScrapeReqs : ScraperReturns(r)
    \/ \E r \in ScrapeReqs : ScraperRaises(r)
    \/ \E r \in ScrapeReqs : LoadGlobal(r)
    \/ \E r \in ScrapeReqs : Extend(r)
    \/ \E r \in ScrapeReqs : ClosePage(r)
    \/ \E r \in ScrapeReqs : CloseBrowser(r)
    \/ \E r \in ScrapeReqs : ScrapeResponse(r)
    \/ CompareCheck
    \/ CompareFrame
    \/ CompareResponse

SpecApp == Init /\ [][AppNext]_vars

(***************************************************************************)
(* normalize_name                                                          *)
(***************************************************************************)
NoSpaceRun(s) ==
    /\ \A i \in 1..Len(s) : IsSpace(s[i]) => s[i] = " "
    /\ \A i \in 1..(Len(s) - 1) : ~(IsSpace(s[i]) /\ IsSpace(s[i + 1]))

NoOuterSpace(s) == s # <<>> => ~IsSpace(s[1]) /\ ~IsSpace(s[Len(s)])

\* normalising a normalised name changes nothing
NormalizeNameIdempotent ==
    op = "normalize_name" => normalize_name(ret) = ret

\* C9: normalize_name is idempotent, and its output is lower-case, holds only
\* alphanumerics and whitespace, has no run of whitespace longer than one
\* space and no leading or trailing whitespace; the empty name gives the
\* empty name.
C9_NormalizeNameIdempotentClean ==
    op = "normalize_name" =>
        /\ normalize_name(ret) = ret
        /\ Lower(ret) = ret
        /\ \A i \in 1..Len(ret) : IsAlnum(ret[i]) \/ IsSpace(ret[i])
        /\ NoSpaceRun(ret)
        /\ NoOuterSpace(ret)
        /\ (args = <<>> => ret = <<>>)

\* the same with the underscore, which \w keeps, allowed in the output
NormalizeNameCleanUpToUnderscore ==
    op = "normalize_name" =>
        /\ normalize_name(ret) = ret
        /\ Lower(ret) = ret
        /\ \A i \in 1..Len(ret) : IsWord(ret[i]) \/ IsSpace(ret[i])
        /\ NoSpaceRun(ret)
        /\ NoOuterSpace(ret)
        /\ (args = <<>> => ret = <<>>)

(***************************************************************************)
(* clean_weight                                                            *)
(***************************************************************************)
\* v is digits, or digits "." digits
IsQuantity(v) ==
    \E a \in 1..Len(v) :
        /\ \A i \in 1..a : IsDigit(v[i])
        /\ \/ a = Len(v)
           \/ /\ a + 2 <= Len(v)
              /\ v[a + 1] = "."
              /\ \A i \in (a + 2)..Len(v) : IsDigit(v[i])

UnitWords == {UnitAlternatives[k] : k \in 1..Len(UnitAlternatives)}

\* <<i, e, u>>: a quantity t[i..e], then whitespace only, then the unit word u
Occurrences(t) ==
    { o \in (1..Len(t)) \X (1..Len(t)) \X UnitWords :
        /\ o[1] <= o[2]
        /\ IsQuantity(SubSeq(t, o[1], o[2]))
        /\ \E p \in (o[2] + 1)..Len(t) :
              /\ \A j \in (o[2] + 1)..(p - 1) : IsSpace(t[j])
              /\ StartsWithAt(t, p, o[3]) }

\* what the documentation says an occurrence of value and unit turns into
Canonical(t, value, unit) ==
    IF unit \in {<<"g">>, <<"g", "m">>, <<"g", "r", "a", "m">>} THEN value \o <<"g">>
    ELSE IF unit = <<"k", "g">> THEN value \o <<"k", "g">>
    ELSE IF unit \in {<<"p", "i", "e", "c", "e">>, <<"p", "c", "s">>} THEN value \o <<"p", "c">>
    ELSE t

\* C8: clean_weight turns the first quantity-plus-unit occurrence of the
\* lower-cased text into value+"g" (g, gm, gram), value+"kg" (kg) or
\* value+"pc" (piece, pcs); when that unit is ml or l, or nothing matches, it
\* returns the lower-cased text ("250 G" -> "250g", "1 Kg" -> "1kg",
\* "2 pcs" -> "2pc", "500 ml" -> "500 ml").
C8_CleanWeightCanonical ==
    op = "clean_weight" =>
        LET t == Lower(args)
            occ == Occurrences(t)
            first == {o \in occ : \A q \in occ : o[1] <= q[1]}
        IN  /\ occ = {} => ret = t
            /\ \A o \in first : ret = Canonical(t, SubSeq(t, o[1], o[2]), o[3])
            /\ (args = <<"2", "5", "0", " ", "G">> => ret = <<"2", "5", "0", "g">>)
            /\ (args = <<"1", " ", "K", "g">> => ret = <<"1", "k", "g">>)
            /\ (args = <<"2", " ", "p", "c", "s">> => ret = <<"2", "p", "c">>)
            /\ (args = <<"5", "0", "0", " ", "m", "l">> => ret = <<"5", "0", "0", " ", "m", "l">>)

\* a weight whose first unit is l, with a gram quantity after it, comes back whole
C8_Witness ==
    /\ op = "clean_weight"
    /\ args = <<"1", "l", " ", "2", "g">>
    /\ ret = <<"1", "l", " ", "2", "g">>

(***************************************************************************)
(* match_products                                                          *)
(***************************************************************************)
Matched == op = "match_products"

PlatformsIn(records) == {records[i].platform : i \in 1..Len(records)}

\* the pairs of input rows, lower platform first, that score at least thr
QualifyingPairs(records, thr) ==
    { p \in (1..Len(records)) \X (1..Len(records)) :
        /\ records[p[1]].platform < records[p[2]].platform
        /\ Score(records[p[1]], records[p[2]]) >= thr }

\* C1: every returned match has platform1 < platform2; so none pairs two
\* products of one platform, and no two matches are the same two products
\* with the platforms swapped.
C1_PlatformOrdered ==
    Matched =>
        /\ \A k \in 1..Len(ret.val) :
              /\ ret.val[k].platform1 < ret.val[k].platform2
              /\ ret.val[k].platform1 # ret.val[k].platform2
              /\ ret.val[k].platform1 = args.records[ret.at[k][1]].platform
              /\ ret.val[k].platform2 = args.records[ret.at[k][2]].platform
        /\ \A k, l \in 1..Len(ret.at) : ret.at[k] # <<ret.at[l][2], ret.at[l][1]>>

\* three platforms, first seen in the order 3, 1, 2, each pair of them matched:
\* the rows of a match are taken by platform, not by their place in the input
C1_Witness ==
    /\ Matched
    /\ Len(args.records) = 3
    /\ args.records[1].platform = 3
    /\ args.records[2].platform = 1
    /\ args.records[3].platform = 2
    /\ Len(ret.val) = 3
    /\ \E k \in 1..Len(ret.at) : ret.at[k] = <<2, 1>>

\* C2: for every pair (a, b) of input records with a.platform < b.platform,
\* exactly one match is emitted if their similarity is at least the threshold
\* and none otherwise; a product that qualifies against k counterparts is in
\* k matches; threshold 101 emits nothing; threshold 100 with one perfect
\* pair emits exactly one match.
C2_SoundAndComplete ==
    Matched =>
        LET records == args.records
            q == QualifyingPairs(records, args.threshold)
            perfect == QualifyingPairs(records, 100)
        IN  /\ Len(ret.val) = Len(ret.at)
            /\ {ret.at[k] : k \in 1..Len(ret.at)} = q
            /\ Len(ret.at) = Cardinality(q)
            /\ \A k \in 1..Len(ret.val) :
                  LET a == records[ret.at[k][1]]
                      b == records[ret.at[k][2]]
                      m == ret.val[k]
                  IN  /\ m.product_name = a.name
                      /\ m.brand = a.brand
                      /\ m.weight = a.weight_clean
                      /\ m.price1 = a.price_numeric
                      /\ m.price2 = b.price_numeric
                      /\ m.similarity = Score(a, b)
                      /\ m.similarity >= args.threshold
            /\ \A i \in 1..Len(records) :
                  Cardinality({k \in 1..Len(ret.at) : i \in {ret.at[k][1], ret.at[k][2]}})
                      = Cardinality({p \in q : i \in {p[1], p[2]}})
            /\ (args.threshold = 101 => ret.val = <<>>)
            /\ (args.threshold = 100 /\ Cardinality(perfect) = 1 => Len(ret.val) = 1)

\* at the default threshold the first product matches two counterparts and
\* the two counterparts, on platforms 2 < 3, do not match each other
C2_Witness ==
    /\ Matched
    /\ args.threshold = 75
    /\ Len(args.records) = 3
    /\ {ret.at[k] : k \in 1..Len(ret.at)} = {<<1, 2>>, <<1, 3>>}
    /\ args.records[2].platform < args.records[3].platform

\* C3 as claimed: cheaper_platform is the side with the strictly lower price,
\* and platform1 when the two prices are equal.
C3_CheaperTieToPlatform1 ==
    Matched =>
        \A k \in 1..Len(ret.val) :
            LET m == ret.val[k]
            IN  /\ (m.price1 < m.price2 => m.cheaper_platform = m.platform1)
                /\ (m.price2 < m.price1 => m.cheaper_platform = m.platform2)
                /\ (m.price1 = m.price2 => m.cheaper_platform = m.platform1)

\* C3 as the code has it: cheaper_platform is the side with the strictly
\* lower price, and platform2 when the two prices are equal.
C3_CheaperTieToPlatform2 ==
    Matched =>
        \A k \in 1..Len(ret.val) :
            LET m == ret.val[k]
            IN  /\ (m.price1 < m.price2 => m.cheaper_platform = m.platform1)
                /\ (m.price2 < m.price1 => m.cheaper_platform = m.platform2)
                /\ (m.price1 = m.price2 => m.cheaper_platform = m.platform2)

\* a match of two products at the same positive price, and one with the
\* first side cheaper
C3_Witness ==
    /\ Matched
    /\ \E k \in 1..Len(ret.val) :
          ret.val[k].price1 = ret.val[k].price2 /\ ret.val[k].price1 > 0
    /\ \E k \in 1..Len(ret.val) : ret.val[k].price1 < ret.val[k].price2

\* C4: with non-negative prices, price_diff = |price1 - price2| >= 0, savings
\* = price_diff, price_diff_pct = price_diff / max(price1, price2) * 100 when
\* that max is positive and 0 when both prices are 0; so it is in [0, 100].
C4_PriceDiffAndPct ==
    Matched =>
        \A k \in 1..Len(ret.val) :
            LET m == ret.val[k]
                hi == IF m.price1 >= m.price2 THEN m.price1 ELSE m.price2
                lo == IF m.price1 >= m.price2 THEN m.price2 ELSE m.price1
                pct == m.price_diff_pct
            IN  /\ m.price_diff = hi - lo
                /\ m.price_diff >= 0
                /\ m.savings = m.price_diff
                /\ pct.den > 0
                /\ (hi > 0 => pct.num * hi = m.price_diff * 100 * pct.den)
                /\ (hi = 0 => pct.num = 0)
                /\ 0 <= pct.num
                /\ pct.num <= 100 * pct.den

\* a match of two products priced 0, and a match of 0 against 38
C4_Witness ==
    /\ Matched
    /\ \E k \in 1..Len(ret.val) : ret.val[k].price1 = 0 /\ ret.val[k].price2 = 0
    /\ \E k \in 1..Len(ret.val) :
          ret.val[k].price1 = 0 /\ ret.val[k].price2 = 38 /\ ret.val[k].price_diff_pct.num > 0

\* C5: with fewer than 2 distinct platforms among the records, match_products
\* returns the empty list and raises nothing, whatever the threshold.
C5_FewPlatformsEmptyResult ==
    Matched /\ Cardinality(PlatformsIn(args.records)) < 2 =>
        ret.exc = "none" /\ ret.val = <<>>

\* the same for a list that holds at least one record
OnePlatformEmptyResult ==
    Matched /\ Cardinality(PlatformsIn(args.records)) = 1 =>
        ret.exc = "none" /\ ret.val = <<>>

(***************************************************************************)
(* calculate_similarity                                                    *)
(***************************************************************************)
\* the token-sort ratio of the two normalised names
BaseScore(a) == token_sort_ratio(normalize_name(a.name1), normalize_name(a.name2))

\* 20 exactly when both weights are non-empty and equal
BonusOf(a) ==
    IF a.weight1 # <<>> /\ a.weight2 # <<>> /\ a.weight1 = a.weight2 THEN 20 ELSE 0

\* C6: calculate_similarity is min(100, base + bonus), base the token-sort
\* ratio (0..100) of the normalised names and bonus 20 exactly when both
\* weights are non-empty and equal; so the score is within 0..100 always.
C6_SimilarityCappedSum ==
    op = "calculate_similarity" =>
        /\ BaseScore(args) \in 0..100
        /\ \/ BaseScore(args) + BonusOf(args) <= 100 /\ ret = BaseScore(args) + BonusOf(args)
           \/ BaseScore(args) + BonusOf(args) > 100 /\ ret = 100
        /\ ret \in 0..100

\* names that are the same tokens in another order, with equal weights: the
\* base is 100, the bonus applies and the score stays 100
C6_Witness ==
    /\ op = "calculate_similarity"
    /\ args.name1 = <<"a", " ", "b">>
    /\ args.name2 = <<"b", " ", "a">>
    /\ args.weight1 = <<"1", "k", "g">>
    /\ args.weight2 = <<"1", "k", "g">>
    /\ BaseScore(args) = 100
    /\ ret = 100

(***************************************************************************)
(* get_best_deals                                                          *)
(***************************************************************************)
\* C7: for top_n >= 0, get_best_deals returns min(top_n, len(matches))
\* records, each a different record of the input, in order of savings
\* non-increasing, records of equal savings in their input order; the input
\* list is left as it was.
C7_BestDealsStableTopN ==
    op = "get_best_deals" =>
        LET n == Len(ret.val)
            len == Len(args.matches)
        IN  /\ n = (IF args.top_n <= len THEN args.top_n ELSE len)
            /\ \A k \in 1..(n - 1) : ret.val[k].savings >= ret.val[k + 1].savings
            /\ \E f \in [1..n -> 1..len] :
                  /\ \A k \in 1..n : ret.val[k] = args.matches[f[k]]
                  /\ \A k, l \in 1..n : k # l => f[k] # f[l]
                  /\ \A k, l \in 1..n :
                        k < l /\ ret.val[k].savings = ret.val[l].savings => f[k] < f[l]
            /\ ret.matches = args.matches

\* three matches, the first and third with the same savings and the second
\* with more; the best two are the second, then the first
C7_Witness ==
    /\ op = "get_best_deals"
    /\ Len(args.matches) = 3
    /\ args.top_n = 2
    /\ args.matches[1].savings = args.matches[3].savings
    /\ args.matches[1] # args.matches[3]
    /\ args.matches[2].savings > args.matches[1].savings
    /\ ret.val = <<args.matches[2], args.matches[1]>>

(***************************************************************************)
(* calculate_statistics                                                    *)
(***************************************************************************)
\* C10: the statistics of fewer than 2 records (of no record at all, too)
\* are returned without an exception, with total_products the number of
\* records and the standard deviation not computable (NaN).
C10_FewRecordsStdNotComputable ==
    op = "calculate_statistics" /\ Len(args) < 2 =>
        /\ ret.exc = "none"
        /\ ret.val.total_products = Len(args)
        /\ ret.val.price_std.nan

\* the same for exactly one record
OneRecordStdNotComputable ==
    op = "calculate_statistics" /\ Len(args) = 1 =>
        /\ ret.exc = "none"
        /\ ret.val.total_products = 1
        /\ ret.val.price_std.nan

\* GET /compare gives statistics exactly when there are records
CompareNeedsRecords ==
    op = "compare" => (ret.status = 400 <=> args = <<>>) /\ ret.status \in {200, 400}

(***************************************************************************)
(* The working set across /scrape requests                                 *)
(***************************************************************************)
\* the scrape cycles that have a record in the list
Cycles(records) == { records[k].cycle : k \in 1..Len(records) }

SomeScrapeFinished == \E r \in ScrapeReqs : scrape_req[r].pc = "done"

\* C11: once a /scrape request has finished, scraped_data holds the records
\* of a single scrape cycle only, with none left over from or contributed
\* by another cycle, whether or not the requests overlapped.
C11_SingleCycleAfterScrape ==
    SomeScrapeFinished => Cardinality(Cycles(scraped_data)) <= 1

\* As long as no thread has been preempted, and so no two /scrape requests
\* have overlapped, the list is that of a single cycle.
SingleCycleWithoutOverlap ==
    preemptions = 0 => Cardinality(Cycles(scraped_data)) <= 1

(***************************************************************************)
(* /compare while a /scrape is being served                                *)
(***************************************************************************)
\* C12: the record list a /compare request hands to match_products,
\* get_platform_stats and calculate_statistics is the result of a finished
\* scrape cycle: no /scrape request was between resetting scraped_data and
\* adding its last platform's data when the list was read.
C12_CompareOnFinishedScrape == compare_req.during = {}

\* As long as no thread has been preempted, a /compare request reads the
\* list only when no /scrape request is collecting.
CompareOnFinishedScrapeWithoutOverlap ==
    preemptions = 0 => compare_req.during = {}

(***************************************************************************)
(* One /scrape request: platforms, pages, the browser and failures         *)
(***************************************************************************)
\* no page is open when the next one is opened or the browser is closed, and
\* the only page open meanwhile is that of the platform being scraped
PagesOneAtATime(r) ==
    IF scrape_req[r].pc \in {"scrape", "load", "extend", "close_page"}
    THEN scrape_req[r].pages = {scrapers[scrape_req[r].i]}
    ELSE scrape_req[r].pages = {}

\* the browser is open throughout the loop and is closed once, after the
\* last platform
BrowserClosedOnce(r) ==
    /\ scrape_req[r].pc \in {"idle", "launch"} =>
          scrape_req[r].browser = "none" /\ scrape_req[r].closes = 0
    /\ scrape_req[r].pc \in {"new_page", "scrape", "load", "extend", "close_page",
                              "close_browser"} =>
          scrape_req[r].browser = "open" /\ scrape_req[r].closes = 0
    /\ scrape_req[r].pc \in {"close_browser", "respond", "done"} =>
          scrape_req[r].i = Len(scrapers)
    /\ scrape_req[r].pc \in {"respond", "done"} =>
          scrape_req[r].browser = "closed" /\ scrape_req[r].closes = 1

\* a platform whose scraper raised has no record of this request in the list
FailedContributesNothing(r) ==
    /\ scrape_req[r].pc \in {"load", "extend"} => scrape_req[r].outcome = "returned"
    /\ scrape_req[r].pc = "close_page" /\ scrape_req[r].outcome = "raised" =>
          \A k \in 1..Len(scraped_data) :
              scraped_data[k] # Scraped(scrapers[scrape_req[r].i], r)

\* the step in which the scraper raises: the exception goes no further, the
\* list is as it was and the request is still at the same platform
FailureSwallowed(r) ==
    scrape_req[r].pc = "scrape" /\ scrape_req'[r].pc = "close_page" =>
        /\ scrape_req'[r].outcome = "raised"
        /\ scrape_req'[r].i = scrape_req[r].i
        /\ scraped_data' = scraped_data

\* after a page is closed, whatever the scraper did, the next platform
\* follows, and the closing of the browser follows the last one
NextPlatformFollows(r) ==
    scrape_req[r].pc = "close_page" /\ scrape_req'[r].pc # "close_page" =>
        /\ scraped_data' = scraped_data
        /\ IF scrape_req[r].i < Len(scrapers)
           THEN scrape_req'[r].pc = "new_page" /\ scrape_req'[r].i = scrape_req[r].i + 1
           ELSE scrape_req'[r].pc = "close_browser" /\ scrape_req'[r].i = scrape_req[r].i

\* a record enters the list only when the request that scraped it adds the
\* data its scraper returned for the platform it is at
AddedByOwnExtend ==
    \A k \in 1..Len(scraped_data') :
        (\A j \in 1..Len(scraped_data) : scraped_data[j] # scraped_data'[k]) =>
            LET r == scraped_data'[k].cycle
            IN  /\ scrape_req[r].pc = "extend"
                /\ scrape_req[r].outcome = "returned"
                /\ scraped_data'[k] = Scraped(scrapers[scrape_req[r].i], r)

\* C13: within one /scrape request the platforms are processed one after
\* another; a scraper's exception is swallowed, its platform contributes no
\* records, the records collected so far are kept and the remaining
\* platforms are still scraped; every page is closed before the next one is
\* opened, and the browser is closed exactly once, after the last platform,
\* whether or not a scraper raised.
C13_FailureIsolated ==
    /\ [](\A r \in ScrapeReqs :
              PagesOneAtATime(r) /\ BrowserClosedOnce(r) /\ FailedContributesNothing(r))
    /\ [][/\ \A r \in ScrapeReqs : FailureSwallowed(r) /\ NextPlatformFollows(r)
          /\ AddedByOwnExtend]_vars

\* the only /scrape request so far has been answered; its Instamart scraper
\* raised (it would have returned a record), Blinkit and Zepto were scraped
\* after that, and the browser has been closed once
C13_Witness ==
    /\ scrape_req[1].pc = "done"
    /\ \A r \in ScrapeReqs : r # 1 => scrape_req[r].pc = "idle"
    /\ scraped_data = <<Scraped("blinkit", 1), Scraped("zepto", 1)>>
    /\ scrape_req[1].closes = 1
    /\ scrape_req[1].pages = {}

=============================================================================
